---------------------------- MODULE Spec2Model ----------------------------
(***************************************************************************)
(* AssessmentAssist: the question document model, its two validators (the  *)
(* mongoose schema of demoSchema.js and validateQuestion of the client)    *)
(* and the editor controller (MainCanvas / QuestionEditor and the three    *)
(* per-type editors).                                                      *)
(*                                                                         *)
(* Text is a sequence of one-character strings, so that trimming, the      *)
(* " (Copy)" suffix and the URL pattern are computed on characters.  A     *)
(* field that may be undefined is None (<<>>) or Some(v) (<<v>>).          *)
(***************************************************************************)
EXTENDS Integers, Sequences, FiniteSets, TLC

VARIABLES
    doc,            \* a candidate Question document handed to both validators
    clientResult,   \* None, or what validateQuestion(doc) returned
    schemaResult,   \* None, or the outcome of doc.save() under the schema
    questions,      \* AssessmentState.questions
    currentQuestionId, \* AssessmentState.currentQuestionId (None: undefined)
    isDrawing,      \* HotspotQuestion's useState(false)
    currentZone,    \* HotspotQuestion's useState([]) of points
    uploads,        \* FileReader loads in flight, each with the closure it calls
    persisted,      \* what saveQuestion handed to the (logged) persistence step
    edits           \* the number of UI events handled so far

vars == <<doc, clientResult, schemaResult, questions, currentQuestionId,
          isDrawing, currentZone, uploads, persisted, edits>>

docVars == <<doc, clientResult, schemaResult>>

editorVars == <<questions, currentQuestionId, isDrawing, currentZone,
                uploads, persisted, edits>>

-----------------------------------------------------------------------------
(* Bounds of the model. *)

\* the longest options array of a candidate document
MaxOptions == 2
\* the longest items array of a candidate document; order values are 0..MaxItems
MaxItems == 3
\* the longest zones array of a candidate document
MaxZones == 1
\* how many UI events that edit the collection one session handles
MaxEdits == 3
\* the most points of a zone being drawn
MaxPoints == 3

-----------------------------------------------------------------------------
(* Optional values and text. *)

None == <<>>
Some(v) == <<v>>
IsSome(o) == o # None
Get(o) == o[1]

WhiteSpace == {" "}

RECURSIVE trimStart(_)
trimStart(s) ==
    IF s # <<>> /\ Head(s) \in WhiteSpace THEN trimStart(Tail(s)) ELSE s

RECURSIVE trimEnd(_)
trimEnd(s) ==
    IF s # <<>> /\ s[Len(s)] \in WhiteSpace
    THEN trimEnd(SubSeq(s, 1, Len(s) - 1))
    ELSE s

\* String.prototype.trim
trim(s) == trimEnd(trimStart(s))

\* !o?.trim() for an optional text: undefined, empty or blank
Blank(o) == o = None \/ trim(Get(o)) = <<>>

\* mongoose's trim setter on an optional String path
TrimOpt(o) == IF o = None THEN None ELSE Some(trim(Get(o)))

\* an array path that is missing reads as [] (mongoose's array default)
Arr(o) == IF o = None THEN <<>> ELSE Get(o)

StartsWith(s, p) == Len(s) >= Len(p) /\ SubSeq(s, 1, Len(p)) = p

SeqsUpTo(S, n) == UNION {[1..k -> S] : k \in 0..n}

-----------------------------------------------------------------------------
(* The document model (types/index.ts). *)

QuestionTypes == {"mcq", "ordering", "hotspot"}
Purposes == {"formative", "summative"}
BloomsLevels == {"Remember", "Understand", "Apply", "Analyze", "Evaluate", "Create"}

-----------------------------------------------------------------------------
(* The client-side validator (validateQuestion). *)

StemErrors(question) ==
    IF trim(question.stem) = <<>> THEN <<"Question stem is required">> ELSE <<>>

PurposeErrors_noBloom(question) ==
    IF question.purpose = "summative"
    THEN IF Blank(question.learningObjective)
         THEN <<"Learning objective is required for summative questions">>
         ELSE <<>>
    ELSE <<>>

PurposeErrors(question) ==
    IF question.purpose = "summative"
    THEN (IF Blank(question.learningObjective)
          THEN <<"Learning objective is required for summative questions">>
          ELSE <<>>)
         \o
         (IF question.bloomsLevel = None \/ Get(question.bloomsLevel) = ""
          THEN <<"Bloom's level is required for summative questions">>
          ELSE <<>>)
    ELSE <<>>

McqErrors_feedbackAlways(question) ==
    LET options == Get(question.options)
    IN  (IF ~ \E i \in 1..Len(options) : options[i].isCorrect
         THEN <<"At least one option must be marked as correct">>
         ELSE <<>>)
        \o
        (IF \E i \in 1..Len(options) : trim(options[i].text) = <<>>
         THEN <<"All options must have text">>
         ELSE <<>>)
        \o
        (IF \E i \in 1..Len(options) : Blank(options[i].feedback)
         THEN <<"All options must have feedback for formative questions">>
         ELSE <<>>)

McqErrors(question) ==
    LET options == Get(question.options)
        hasCorrectOption == \E i \in 1..Len(options) : options[i].isCorrect
        hasEmptyOption == \E i \in 1..Len(options) : trim(options[i].text) = <<>>
        hasEmptyFeedback == \E i \in 1..Len(options) : Blank(options[i].feedback)
    IN  (IF ~hasCorrectOption
         THEN <<"At least one option must be marked as correct">>
         ELSE <<>>)
        \o
        (IF hasEmptyOption THEN <<"All options must have text">> ELSE <<>>)
        \o
        (IF question.purpose = "formative" /\ hasEmptyFeedback
         THEN <<"All options must have feedback for formative questions">>
         ELSE <<>>)

OrderingErrors(question) ==
    LET items == Get(question.items)
        hasEmptyItem == \E i \in 1..Len(items) : trim(items[i].text) = <<>>
    IN  (IF hasEmptyItem THEN <<"All items must have text">> ELSE <<>>)
        \o
        (IF Len(items) < 2
         THEN <<"Ordering questions must have at least 2 items">>
         ELSE <<>>)

HotspotErrors_never(question) == <<>>

HotspotErrors(question) ==
    IF Len(Get(question.zones)) = 0
    THEN <<"At least one hotspot zone is required">>
    ELSE <<>>

TypeErrors(question) ==
    CASE question.type = "mcq" -> McqErrors(question)
      [] question.type = "ordering" -> OrderingErrors(question)
      [] question.type = "hotspot" -> HotspotErrors(question)
      [] OTHER -> <<>>

validateQuestion_stopAtFirst(question) ==
    LET all == StemErrors(question) \o PurposeErrors(question) \o TypeErrors(question)
        errors == IF all = <<>> THEN <<>> ELSE <<Head(all)>>
    IN  [isValid |-> Len(errors) = 0, errors |-> errors]

validateQuestion(question) ==
    LET errors == StemErrors(question) \o PurposeErrors(question) \o TypeErrors(question)
    IN  [isValid |-> Len(errors) = 0, errors |-> errors]

-----------------------------------------------------------------------------
(* The schema-side validator (demoSchema.js): casting, the field rules of   *)
(* the schema, then the pre('save') hook.                                   *)

CastOption(opt) ==
    [opt EXCEPT !.text = trim(@), !.feedback = TrimOpt(@)]

CastItem(item) == [item EXCEPT !.text = trim(@)]

CastZone(zone) == [zone EXCEPT !.label = TrimOpt(@)]

\* the setters of the schema: every String path with trim: true is trimmed,
\* and a missing array path is []
Cast(d) ==
    [d EXCEPT !.stem = trim(@),
              !.topic = TrimOpt(@),
              !.learningObjective = TrimOpt(@),
              !.imageUrl = TrimOpt(@),
              !.options = Some([i \in 1..Len(Arr(@)) |-> CastOption(Arr(@)[i])]),
              !.items = Some([i \in 1..Len(Arr(@)) |-> CastItem(Arr(@)[i])]),
              !.zones = Some([i \in 1..Len(Arr(@)) |-> CastZone(Arr(@)[i])])]

\* mongoose's required validator of a String path: undefined and "" both fail
MissingText(o) == o = None \/ Get(o) = <<>>

\* /^https?:\/\/.+/.test(url)
Http == <<"h","t","t","p",":","/","/">>
Https == <<"h","t","t","p","s",":","/","/">>
MatchesHttpUrl(url) ==
    \/ StartsWith(url, Http) /\ Len(url) > Len(Http)
    \/ StartsWith(url, Https) /\ Len(url) > Len(Https)

ImageUrlValid_anyText(d) == TRUE

ImageUrlValid(d) ==
    \/ d.imageUrl = None
    \/ Get(d.imageUrl) = <<>>
    \/ MatchesHttpUrl(Get(d.imageUrl))

\* baseQuestionSchema: required, enum and conditional-required paths
BaseFieldErrors(d) ==
    (IF d.type \notin QuestionTypes THEN {"type"} ELSE {})
    \cup (IF d.purpose \notin Purposes THEN {"purpose"} ELSE {})
    \cup (IF d.stem = <<>> THEN {"stem"} ELSE {})
    \cup (IF d.purpose = "summative" /\ MissingText(d.learningObjective)
          THEN {"learningObjective"} ELSE {})
    \cup (IF d.purpose = "summative"
             /\ (d.bloomsLevel = None \/ Get(d.bloomsLevel) = "")
          THEN {"bloomsLevel"} ELSE {})
    \cup (IF d.bloomsLevel # None /\ Get(d.bloomsLevel) \notin BloomsLevels
          THEN {"bloomsLevel.enum"} ELSE {})
    \cup (IF d.createdBy = None THEN {"createdBy"} ELSE {})

\* mcqOptionSchema; this.parent() is the question the option belongs to
OptionFieldErrors(d) ==
    LET options == Get(d.options)
    IN  (IF \E i \in 1..Len(options) : options[i].text = <<>>
         THEN {"options.text"} ELSE {})
        \cup
        (IF d.purpose = "formative"
            /\ \E i \in 1..Len(options) : MissingText(options[i].feedback)
         THEN {"options.feedback"} ELSE {})

\* orderingItemSchema
ItemFieldErrors(d) ==
    LET items == Get(d.items)
    IN  IF \E i \in 1..Len(items) : items[i].text = <<>>
        THEN {"items.text"} ELSE {}

CountErrors_anyType(d) ==
    (IF Len(Get(d.options)) < 2 THEN {"options"} ELSE {})
    \cup (IF Len(Get(d.items)) < 2 THEN {"items"} ELSE {})
    \cup (IF Len(Get(d.zones)) < 1 THEN {"zones"} ELSE {})

\* the validators of the options, items and zones paths
CountErrors(d) ==
    (IF d.type = "mcq" /\ Len(Get(d.options)) < 2 THEN {"options"} ELSE {})
    \cup (IF d.type = "ordering" /\ Len(Get(d.items)) < 2 THEN {"items"} ELSE {})
    \cup (IF d.type = "hotspot" /\ Len(Get(d.zones)) < 1 THEN {"zones"} ELSE {})

\* document validation, which mongoose runs before the pre('save') hooks; d is cast
FieldErrors(d) ==
    BaseFieldErrors(d) \cup OptionFieldErrors(d) \cup ItemFieldErrors(d)
    \cup CountErrors(d)
    \cup (IF ImageUrlValid(d) THEN {} ELSE {"imageUrl"})

RECURSIVE Insert(_, _)
Insert(x, s) ==
    IF s = <<>> THEN <<x>>
    ELSE IF x <= Head(s) THEN <<x>> \o s
    ELSE <<Head(s)>> \o Insert(x, Tail(s))

\* Array.prototype.sort((a, b) => a - b)
RECURSIVE sort(_)
sort(s) == IF s = <<>> THEN <<>> ELSE Insert(Head(s), sort(Tail(s)))

CorrectCount(options) == Cardinality({i \in 1..Len(options) : options[i].isCorrect})

McqPreSave_atLeastOne(d) ==
    LET options == Get(d.options)
    IN  IF CorrectCount(options) < 1
        THEN Some("MCQ questions must have exactly one correct option")
        ELSE IF d.purpose = "formative"
                /\ \E i \in 1..Len(options) : MissingText(options[i].feedback)
        THEN Some("Formative MCQ questions must have feedback for all options")
        ELSE None

McqPreSave(d) ==
    LET options == Get(d.options)
    IN  IF CorrectCount(options) # 1
        THEN Some("MCQ questions must have exactly one correct option")
        ELSE IF d.purpose = "formative"
                /\ \E i \in 1..Len(options) : MissingText(options[i].feedback)
        THEN Some("Formative MCQ questions must have feedback for all options")
        ELSE None

OrderingPreSave_unsorted(d) ==
    LET items == Get(d.items)
    IN  IF \E i \in 1..Len(items) : items[i].order # i - 1
        THEN Some("Ordering items must have sequential order numbers starting from 0")
        ELSE None

OrderingPreSave(d) ==
    LET items == Get(d.items)
        orders == sort([i \in 1..Len(items) |-> items[i].order])
    IN  IF \E i \in 1..Len(orders) : orders[i] # i - 1
        THEN Some("Ordering items must have sequential order numbers starting from 0")
        ELSE None

\* questionSchema.pre('save'): None when next() is called without an error
PreSave(d) ==
    IF d.type = "mcq" THEN McqPreSave(d)
    ELSE IF d.type = "ordering" THEN OrderingPreSave(d)
    ELSE None

\* the request body the front end sends for a question: the question's fields
\* and the author it is created by
ToDocument(question) ==
    [type |-> question.type, purpose |-> question.purpose, stem |-> question.stem,
     topic |-> question.topic, learningObjective |-> question.learningObjective,
     bloomsLevel |-> question.bloomsLevel, createdBy |-> Some("author"),
     options |-> question.options, items |-> question.items,
     zones |-> question.zones, imageUrl |-> question.imageUrl]

\* doc.save(): validation, then the hook, then the write
SchemaSave(document) ==
    LET d == Cast(document)
        fieldErrors == FieldErrors(d)
        error == IF fieldErrors = {} THEN PreSave(d) ELSE None
    IN  [accepted |-> fieldErrors = {} /\ error = None,
         fieldErrors |-> fieldErrors,
         error |-> error]

-----------------------------------------------------------------------------
(* Candidate documents: every combination of the values below, with the    *)
(* payload of the document's own type present.                             *)

StemInputs == {<<>>, <<" ">>, <<"a">>}
ObjectiveInputs == {None, Some(<<" ">>), Some(<<"o">>)}
BloomInputs == {None, Some(""), Some("Apply")}
FeedbackInputs == {None, Some(<<" ">>), Some(<<"f">>)}
TextInputs == {<<>>, <<"a">>}
ImageUrlInputs ==
    {None, Some(<<>>), Some(<<"a">>), Some(Http), Some(Http \o <<"x">>),
     Some(<<" ">> \o Https \o <<"x">>)}

Triangle == <<[x |-> 0, y |-> 0], [x |-> 1, y |-> 0], [x |-> 0, y |-> 1]>>

OptionDocs == [id : {"o"}, text : TextInputs, isCorrect : BOOLEAN, feedback : FeedbackInputs]
ItemDocs == [id : {"i"}, text : TextInputs, order : 0..MaxItems]
ZoneDocs == [id : {"z"}, coordinates : {Triangle}, label : {None}]

BaseDocs ==
    [purpose : Purposes, stem : StemInputs, learningObjective : ObjectiveInputs,
     bloomsLevel : BloomInputs]

MakeDoc(b, type, options, items, zones, imageUrl) ==
    [id |-> "q", type |-> type, purpose |-> b.purpose, stem |-> b.stem,
     topic |-> None, learningObjective |-> b.learningObjective,
     bloomsLevel |-> b.bloomsLevel,
     options |-> options, items |-> items, zones |-> zones,
     imageUrl |-> imageUrl, imageFile |-> None]

DocSet ==
    {MakeDoc(b, "mcq", Some(o), None, None, None) :
        b \in BaseDocs, o \in SeqsUpTo(OptionDocs, MaxOptions)}
    \cup
    {MakeDoc(b, "ordering", None, Some(i), None, None) :
        b \in BaseDocs, i \in SeqsUpTo(ItemDocs, MaxItems)}
    \cup
    {MakeDoc(b, "hotspot", None, None, Some(z), u) :
        b \in BaseDocs, z \in SeqsUpTo(ZoneDocs, MaxZones), u \in ImageUrlInputs}
    \cup
    {MakeDoc(b, "mcq", Some(o), None, None, Some(<<"a">>)) :
        b \in BaseDocs, o \in SeqsUpTo(OptionDocs, MaxOptions)}

-----------------------------------------------------------------------------
(* The editor. *)

\* one UI event that edits the collection, a question or the selection: the
\* session handles at most MaxEdits of them
Counted ==
    /\ edits < MaxEdits
    /\ edits' = edits + 1
    /\ UNCHANGED docVars

\* a canvas click, Cancel, or the end of a file load
Uncounted == UNCHANGED edits /\ UNCHANGED docVars

\* the state after construction (App's useState)
InitEditor ==
    /\ questions = <<>>
    /\ currentQuestionId = None
    /\ isDrawing = FALSE
    /\ currentZone = <<>>
    /\ uploads = {}
    /\ persisted = <<>>
    /\ edits = 0

-----------------------------------------------------------------------------
(* The two validators applied to one candidate document. *)

InitDoc ==
    /\ doc \in DocSet
    /\ clientResult = None
    /\ schemaResult = None
    /\ InitEditor

\* one render: QuestionEditor calls validateQuestion(question)
CallValidate ==
    /\ clientResult = None
    /\ clientResult' = Some(validateQuestion(doc))
    /\ UNCHANGED <<doc, schemaResult>>
    /\ UNCHANGED editorVars

\* the persistence boundary: the document is saved under the schema
Persist ==
    /\ schemaResult = None
    /\ schemaResult' = Some(SchemaSave(ToDocument(doc)))
    /\ UNCHANGED <<doc, clientResult>>
    /\ UNCHANGED editorVars

NextDoc == CallValidate \/ Persist

SpecDoc == InitDoc /\ [][NextDoc]_vars

-----------------------------------------------------------------------------
(* The editor: inputs. *)

\* what generateId() may return: two calls may return the same string
Ids == {"a", "b"}
IdSeqs(n) == [1..n -> Ids]

StemTyped == {<<>>, <<" ">>, <<"a">>}
TextTyped == {<<>>, <<"a">>}
BloomSelected == {"", "Apply"}
ImageUrlTyped == {<<>>, <<"a">>, Http \o <<"x">>}
ClickPoints == {[x |-> 0, y |-> 0], [x |-> 1, y |-> 1]}

ImagePng == <<"i","m","a","g","e","/","p","n","g">>
TextPlain == <<"t","e","x","t","/","p","l","a","i","n">>
ImageSlash == <<"i","m","a","g","e","/">>
\* 5 * 1024 * 1024
MaxImageBytes == 5242880
FilesChosen ==
    {None,
     Some([type |-> ImagePng, size |-> 1]),
     Some([type |-> TextPlain, size |-> 1]),
     Some([type |-> ImagePng, size |-> MaxImageBytes + 1])}

\* FileReader.readAsDataURL's result
DataUrlPrefix == <<"d","a","t","a",":">>
DataUrl(file) == DataUrlPrefix \o file.type \o <<";","b","a","s","e","6","4",",">>

-----------------------------------------------------------------------------
(* utils: createEmptyQuestion and generateAISuggestions. *)

createEmptyQuestion_noStubs(type, ids) ==
    [id |-> ids[1], type |-> type, purpose |-> "formative", stem |-> <<>>,
     topic |-> None, learningObjective |-> None, bloomsLevel |-> None,
     options |-> IF type = "mcq" THEN Some(<<>>) ELSE None,
     items |-> IF type = "ordering" THEN Some(<<>>) ELSE None,
     zones |-> IF type = "hotspot" THEN Some(<<>>) ELSE None,
     imageUrl |-> IF type = "hotspot" THEN Some(<<>>) ELSE None,
     imageFile |-> None]

\* ids[1] is the question's generateId(), ids[2..] those of its sub-items
createEmptyQuestion(type, ids) ==
    LET baseQuestion ==
            [id |-> ids[1], type |-> type, purpose |-> "formative", stem |-> <<>>,
             topic |-> None, learningObjective |-> None, bloomsLevel |-> None,
             options |-> None, items |-> None, zones |-> None,
             imageUrl |-> None, imageFile |-> None]
    IN  CASE type = "mcq" ->
               [baseQuestion EXCEPT !.options = Some(
                  <<[id |-> ids[2], text |-> <<>>, isCorrect |-> FALSE, feedback |-> None],
                    [id |-> ids[3], text |-> <<>>, isCorrect |-> TRUE, feedback |-> None],
                    [id |-> ids[4], text |-> <<>>, isCorrect |-> FALSE, feedback |-> None],
                    [id |-> ids[5], text |-> <<>>, isCorrect |-> FALSE, feedback |-> None]>>)]
          [] type = "ordering" ->
               [baseQuestion EXCEPT !.items = Some(
                  <<[id |-> ids[2], text |-> <<>>, order |-> 0],
                    [id |-> ids[3], text |-> <<>>, order |-> 1],
                    [id |-> ids[4], text |-> <<>>, order |-> 2]>>)]
          [] type = "hotspot" ->
               [baseQuestion EXCEPT !.zones = Some(<<>>), !.imageUrl = Some(<<>>)]

\* how many generateId() calls createEmptyQuestion(type) makes
IdsNeeded(type) ==
    CASE type = "mcq" -> 5 [] type = "ordering" -> 4 [] type = "hotspot" -> 1

DefaultTopic == <<"t","h","e"," ","t","o","p","i","c">>
AIStemPrefix == <<"E","x","p","l","a","i","n"," ","t","h","e"," ","c","o","n","c","e","p","t"," ","o","f"," ">>
AIStemSuffix == <<" ","a","n","d"," ","i","t","s"," ","i","m","p","o","r","t","a","n","c","e"," ","i","n"," ","m","o","d","e","r","n"," ","a","p","p","l","i","c","a","t","i","o","n","s",".">>
AIOptionTexts ==
    << <<" ","i","s"," ","a"," ","f","u","n","d","a","m","e","n","t","a","l"," ","c","o","n","c","e","p","t">>,
       <<" ","i","s"," ","o","b","s","o","l","e","t","e"," ","t","e","c","h","n","o","l","o","g","y">>,
       <<" ","o","n","l","y"," ","w","o","r","k","s"," ","o","n"," ","W","i","n","d","o","w","s">>,
       <<" ","r","e","q","u","i","r","e","s"," ","n","o"," ","p","r","o","g","r","a","m","m","i","n","g">> >>
AIOptionFeedback ==
    << <<"C","o","r","r","e","c","t","!"," ","T","h","i","s"," ","i","s"," ","t","h","e"," ","r","i","g","h","t"," ","a","n","s","w","e","r",".">>,
       <<"I","n","c","o","r","r","e","c","t","."," ","$","{","t","o","p","i","c","}"," ","i","s"," ","s","t","i","l","l"," ","w","i","d","e","l","y"," ","u","s","e","d",".">>,
       <<"I","n","c","o","r","r","e","c","t","."," ","$","{","t","o","p","i","c","}"," ","i","s"," ","c","r","o","s","s","-","p","l","a","t","f","o","r","m",".">>,
       <<"I","n","c","o","r","r","e","c","t","."," ","$","{","t","o","p","i","c","}"," ","r","e","q","u","i","r","e","s"," ","p","r","o","g","r","a","m","m","i","n","g"," ","k","n","o","w","l","e","d","g","e",".">> >>
AIItemPrefix ==
    << <<"I","n","i","t","i","a","l","i","z","e"," ">>,
       <<"C","o","n","f","i","g","u","r","e"," ">>,
       <<"I","m","p","l","e","m","e","n","t"," ">>,
       <<"T","e","s","t"," ">> >>
AIItemSuffix ==
    << <<" ","e","n","v","i","r","o","n","m","e","n","t">>,
       <<" ","s","e","t","t","i","n","g","s">>,
       <<" ","f","u","n","c","t","i","o","n","a","l","i","t","y">>,
       <<" ","i","m","p","l","e","m","e","n","t","a","t","i","o","n">> >>
AIZoneLabels ==
    << <<"M","a","i","n"," ","c","o","m","p","o","n","e","n","t">>,
       <<"S","e","c","o","n","d","a","r","y"," ","c","o","m","p","o","n","e","n","t">> >>
AIZoneCoordinates ==
    << <<[x |-> 100, y |-> 100], [x |-> 200, y |-> 100],
         [x |-> 200, y |-> 200], [x |-> 100, y |-> 200]>>,
       <<[x |-> 300, y |-> 150], [x |-> 400, y |-> 150],
         [x |-> 400, y |-> 250], [x |-> 300, y |-> 250]>> >>

\* question.xs[i]?.id || generateId(): the id at (1-based) position i, else ids[i]
IdAtOr(xs, i, ids) == IF i <= Len(xs) THEN xs[i].id ELSE ids[i]

\* the question handleAISuggest passes to onChange; ids are the generateId()
\* results it may need (4 for options or items, 2 for zones)
AISuggested(question, ids) ==
    LET topic == IF question.topic = None \/ Get(question.topic) = <<>>
                 THEN DefaultTopic ELSE Get(question.topic)
        based == [question EXCEPT !.stem = AIStemPrefix \o topic \o AIStemSuffix,
                                  !.topic = Some(topic)]
    IN  CASE question.type = "mcq" ->
               [based EXCEPT !.options = Some(
                  [i \in 1..4 |->
                     [id |-> IdAtOr(Get(question.options), i, ids),
                      text |-> topic \o AIOptionTexts[i],
                      isCorrect |-> (i = 1),
                      feedback |-> Some(AIOptionFeedback[i])]])]
          [] question.type = "ordering" ->
               [based EXCEPT !.items = Some(
                  [i \in 1..4 |->
                     [id |-> IdAtOr(Get(question.items), i, ids),
                      text |-> AIItemPrefix[i] \o topic \o AIItemSuffix[i],
                      order |-> i - 1]])]
          [] question.type = "hotspot" ->
               [based EXCEPT !.zones = Some(
                  [i \in 1..2 |->
                     [id |-> ids[i], coordinates |-> AIZoneCoordinates[i],
                      label |-> Some(AIZoneLabels[i])]])]

\* the generateId() calls handleAISuggest makes: only where no id is reused
AIIdSeqs(question) ==
    CASE question.type = "mcq" ->
           {ids \in IdSeqs(4) :
              \A i \in 1..4 : i <= Len(Get(question.options)) => ids[i] = "a"}
      [] question.type = "ordering" ->
           {ids \in IdSeqs(4) :
              \A i \in 1..4 : i <= Len(Get(question.items)) => ids[i] = "a"}
      [] question.type = "hotspot" -> IdSeqs(2)

-----------------------------------------------------------------------------
(* MainCanvas: the collection and the selection. *)

\* questions.findIndex(q => q.id === id) + 1, 0 when there is none
IndexOfId(qs, id) ==
    IF \E i \in 1..Len(qs) : qs[i].id = id
    THEN CHOOSE i \in 1..Len(qs) :
            qs[i].id = id /\ \A j \in 1..(i - 1) : qs[j].id # id
    ELSE 0

CurrentIndexIn(qs, cur) == IF cur = None THEN 0 ELSE IndexOfId(qs, Get(cur))

\* const currentQuestion = questions.find(q => q.id === currentQuestionId)
HasCurrent == CurrentIndexIn(questions, currentQuestionId) # 0
CurrentQuestion == questions[CurrentIndexIn(questions, currentQuestionId)]

\* the HotspotQuestion component is rendered for the current question
HotspotMounted(qs, cur) ==
    /\ CurrentIndexIn(qs, cur) # 0
    /\ qs[CurrentIndexIn(qs, cur)].type = "hotspot"

\* the component's state lives while it stays mounted and starts anew otherwise
DrawingKept ==
    IF HotspotMounted(questions', currentQuestionId')
    THEN UNCHANGED <<isDrawing, currentZone>>
    ELSE isDrawing' = FALSE /\ currentZone' = <<>>

\* updateQuestion's questions.map(...)
Replaced(qs, updatedQuestion) ==
    [i \in 1..Len(qs) |->
        IF qs[i].id = updatedQuestion.id THEN updatedQuestion ELSE qs[i]]

\* onChange(updatedQuestion) from the editor of the current question
Change(updatedQuestion) ==
    /\ questions' = Replaced(questions, updatedQuestion)
    /\ UNCHANGED <<currentQuestionId, uploads, persisted>>
    /\ DrawingKept

Appended(type, ids) ==
    /\ questions' = Append(questions, createEmptyQuestion(type, ids))
    /\ currentQuestionId' = Some(ids[1])

AddQuestion ==
    /\ Counted
    /\ \E type \in QuestionTypes : \E ids \in IdSeqs(IdsNeeded(type)) :
           /\ Appended(type, ids)
           /\ UNCHANGED <<uploads, persisted>>
           /\ DrawingKept

\* a click on a question's card in the sidebar
SelectQuestion ==
    /\ Counted
    /\ \E i \in 1..Len(questions) :
           /\ currentQuestionId' = Some(questions[i].id)
           /\ UNCHANGED <<questions, uploads, persisted>>
           /\ DrawingKept

Without(qs, questionId) ==
    LET keep(q) == q.id # questionId IN SelectSeq(qs, keep)

deleteQuestion_keepsSelection(questionId) ==
    /\ questions' = Without(questions, questionId)
    /\ UNCHANGED <<currentQuestionId, uploads, persisted>>
    /\ DrawingKept

\* deleteQuestion(questionId)
deleteQuestion(questionId) ==
    LET updatedQuestions == Without(questions, questionId)
    IN  /\ questions' = updatedQuestions
        /\ currentQuestionId' =
             IF currentQuestionId = Some(questionId)
             THEN IF Len(updatedQuestions) > 0
                  THEN Some(updatedQuestions[1].id) ELSE None
             ELSE currentQuestionId
        /\ UNCHANGED <<uploads, persisted>>
        /\ DrawingKept

\* the sidebar's bin of any question, or the editor's Delete Question
DeleteQuestion ==
    /\ Counted
    /\ \E i \in 1..Len(questions) : deleteQuestion(questions[i].id)

CopySuffix == <<" ","(","C","o","p","y",")">>
Duplicated(question, id) ==
    [question EXCEPT !.id = id, !.stem = @ \o CopySuffix]

\* duplicateQuestion(question), with id the value its generateId() returns
duplicateQuestion(question, id) ==
    /\ questions' = Append(questions, Duplicated(question, id))
    /\ currentQuestionId' = Some(id)
    /\ UNCHANGED <<uploads, persisted>>
    /\ DrawingKept

\* the Duplicate button of any question in the sidebar
DuplicateQuestion ==
    /\ Counted
    /\ \E i \in 1..Len(questions) : \E id \in Ids :
           duplicateQuestion(questions[i], id)

SaveDisabled_never(question) == FALSE

\* the Save Question button's disabled={!validation.isValid}
SaveDisabled(question) == ~validateQuestion(question).isValid

\* saveQuestion: the question is logged as saved and a new MCQ is added
SaveQuestion ==
    /\ Counted
    /\ HasCurrent
    /\ ~SaveDisabled(CurrentQuestion)
    /\ persisted' = Append(persisted, CurrentQuestion)
    /\ \E ids \in IdSeqs(IdsNeeded("mcq")) : Appended("mcq", ids)
    /\ UNCHANGED uploads
    /\ DrawingKept

-----------------------------------------------------------------------------
(* QuestionEditor. *)

TypeChanged_keepsPayload(question, type) ==
    CASE type = "mcq" ->
           [question EXCEPT !.type = type, !.options = Some(
              <<[id |-> "opt1", text |-> <<>>, isCorrect |-> FALSE, feedback |-> None],
                [id |-> "opt2", text |-> <<>>, isCorrect |-> TRUE, feedback |-> None],
                [id |-> "opt3", text |-> <<>>, isCorrect |-> FALSE, feedback |-> None],
                [id |-> "opt4", text |-> <<>>, isCorrect |-> FALSE, feedback |-> None]>>)]
      [] type = "ordering" ->
           [question EXCEPT !.type = type, !.items = Some(
              <<[id |-> "item1", text |-> <<>>, order |-> 0],
                [id |-> "item2", text |-> <<>>, order |-> 1],
                [id |-> "item3", text |-> <<>>, order |-> 2]>>)]
      [] type = "hotspot" ->
           [question EXCEPT !.type = type, !.zones = Some(<<>>),
                            !.imageUrl = Some(<<>>)]

\* updateQuestionType's baseData
BaseData(question, type) ==
    [id |-> question.id, type |-> type,
     purpose |-> question.purpose, stem |-> question.stem,
     topic |-> question.topic,
     learningObjective |-> question.learningObjective,
     bloomsLevel |-> question.bloomsLevel,
     options |-> None, items |-> None, zones |-> None,
     imageUrl |-> None, imageFile |-> None]

\* updateQuestionType's switch (type)
TypeDefaults(baseData, type) ==
    CASE type = "mcq" ->
           [baseData EXCEPT !.options = Some(
              <<[id |-> "opt1", text |-> <<>>, isCorrect |-> FALSE, feedback |-> None],
                [id |-> "opt2", text |-> <<>>, isCorrect |-> TRUE, feedback |-> None],
                [id |-> "opt3", text |-> <<>>, isCorrect |-> FALSE, feedback |-> None],
                [id |-> "opt4", text |-> <<>>, isCorrect |-> FALSE, feedback |-> None]>>)]
      [] type = "ordering" ->
           [baseData EXCEPT !.items = Some(
              <<[id |-> "item1", text |-> <<>>, order |-> 0],
                [id |-> "item2", text |-> <<>>, order |-> 1],
                [id |-> "item3", text |-> <<>>, order |-> 2]>>)]
      [] type = "hotspot" ->
           [baseData EXCEPT !.zones = Some(<<>>), !.imageUrl = Some(<<>>)]

TypeChanged_keptWhenSame(question, type) ==
    IF type = question.type THEN question
    ELSE TypeDefaults(BaseData(question, type), type)

\* the question updateQuestionType(type) hands to onChange
TypeChanged(question, type) == TypeDefaults(BaseData(question, type), type)

\* the question type select
UpdateQuestionType ==
    /\ Counted
    /\ HasCurrent
    /\ \E type \in QuestionTypes : Change(TypeChanged(CurrentQuestion, type))

UpdatePurpose ==
    /\ Counted
    /\ HasCurrent
    /\ \E purpose \in Purposes : Change([CurrentQuestion EXCEPT !.purpose = purpose])

\* updateMetadata('topic', ...), and, shown for summative questions only,
\* updateMetadata('learningObjective', ...) and updateMetadata('bloomsLevel', ...)
UpdateMetadata ==
    /\ Counted
    /\ HasCurrent
    /\ \/ \E value \in TextTyped : Change([CurrentQuestion EXCEPT !.topic = Some(value)])
       \/ /\ CurrentQuestion.purpose = "summative"
          /\ \E value \in TextTyped :
               Change([CurrentQuestion EXCEPT !.learningObjective = Some(value)])
       \/ /\ CurrentQuestion.purpose = "summative"
          /\ \E value \in BloomSelected :
               Change([CurrentQuestion EXCEPT !.bloomsLevel = Some(value)])

HandleAISuggest ==
    /\ Counted
    /\ HasCurrent
    /\ \E ids \in AIIdSeqs(CurrentQuestion) : Change(AISuggested(CurrentQuestion, ids))

\* updateStem of the three per-type editors
UpdateStem ==
    /\ Counted
    /\ HasCurrent
    /\ \E stem \in StemTyped : Change([CurrentQuestion EXCEPT !.stem = stem])

-----------------------------------------------------------------------------
(* MCQQuestion. *)

IsMcq == HasCurrent /\ CurrentQuestion.type = "mcq"

WithOptions(question, options) == [question EXCEPT !.options = Some(options)]

\* updateOption(option.id, 'text', ...) and, shown for formative questions
\* only, updateOption(option.id, 'feedback', ...)
UpdateOption ==
    /\ Counted
    /\ IsMcq
    /\ LET question == CurrentQuestion
           options == Get(question.options)
       IN  \E k \in 1..Len(options) :
             \/ \E value \in TextTyped :
                  Change(WithOptions(question,
                     [i \in 1..Len(options) |->
                        IF options[i].id = options[k].id
                        THEN [options[i] EXCEPT !.text = value]
                        ELSE options[i]]))
             \/ /\ question.purpose = "formative"
                /\ \E value \in TextTyped :
                     Change(WithOptions(question,
                        [i \in 1..Len(options) |->
                           IF options[i].id = options[k].id
                           THEN [options[i] EXCEPT !.feedback = Some(value)]
                           ELSE options[i]]))

AddOption ==
    /\ Counted
    /\ IsMcq
    /\ \E id \in Ids :
         Change(WithOptions(CurrentQuestion,
            Append(Get(CurrentQuestion.options),
                   [id |-> id, text |-> <<>>, isCorrect |-> FALSE,
                    feedback |-> Some(<<>>)])))

\* the Remove button is rendered, and removeOption acts, with more than 2 options
RemoveOption ==
    /\ Counted
    /\ IsMcq
    /\ LET options == Get(CurrentQuestion.options)
       IN  /\ Len(options) > 2
           /\ \E k \in 1..Len(options) :
                LET keep(opt) == opt.id # options[k].id
                IN  Change(WithOptions(CurrentQuestion, SelectSeq(options, keep)))

SetCorrectOption ==
    /\ Counted
    /\ IsMcq
    /\ LET options == Get(CurrentQuestion.options)
       IN  \E k \in 1..Len(options) :
             Change(WithOptions(CurrentQuestion,
                [i \in 1..Len(options) |->
                   [options[i] EXCEPT !.isCorrect = (options[i].id = options[k].id)]]))

-----------------------------------------------------------------------------
(* OrderingQuestion. *)

IsOrdering == HasCurrent /\ CurrentQuestion.type = "ordering"

WithItems(question, items) == [question EXCEPT !.items = Some(items)]

Reindexed_keepsOrder(items) == items

\* .map((item, index) => ({ ...item, order: index }))
Reindexed(items) == [i \in 1..Len(items) |-> [items[i] EXCEPT !.order = i - 1]]

UpdateItem ==
    /\ Counted
    /\ IsOrdering
    /\ LET items == Get(CurrentQuestion.items)
       IN  \E k \in 1..Len(items) : \E text \in TextTyped :
             Change(WithItems(CurrentQuestion,
                [i \in 1..Len(items) |->
                   IF items[i].id = items[k].id
                   THEN [items[i] EXCEPT !.text = text]
                   ELSE items[i]]))

AddItem ==
    /\ Counted
    /\ IsOrdering
    /\ LET items == Get(CurrentQuestion.items)
       IN  \E id \in Ids :
             Change(WithItems(CurrentQuestion,
                Append(items, [id |-> id, text |-> <<>>, order |-> Len(items)])))

RemoveItem ==
    /\ Counted
    /\ IsOrdering
    /\ LET items == Get(CurrentQuestion.items)
       IN  /\ Len(items) > 2
           /\ \E k \in 1..Len(items) :
                LET keep(item) == item.id # items[k].id
                IN  Change(WithItems(CurrentQuestion,
                       Reindexed(SelectSeq(items, keep))))

\* dnd-kit's arrayMove(array, from, to), with 1-based positions
arrayMove(array, from, to) ==
    LET rest == SubSeq(array, 1, from - 1) \o SubSeq(array, from + 1, Len(array))
    IN  SubSeq(rest, 1, to - 1) \o <<array[from]>> \o SubSeq(rest, to, Len(rest))

\* an item dragged onto another: active and over are two of the items
HandleDragEnd ==
    /\ Counted
    /\ IsOrdering
    /\ LET items == Get(CurrentQuestion.items)
           ids == [i \in 1..Len(items) |-> items[i].id]
       IN  \E a, o \in 1..Len(items) :
             IF items[a].id # items[o].id
             THEN Change(WithItems(CurrentQuestion,
                     Reindexed(arrayMove(items,
                                         IndexOfId(items, items[a].id),
                                         IndexOfId(items, items[o].id)))))
             ELSE UNCHANGED <<questions, currentQuestionId, uploads, persisted,
                             isDrawing, currentZone>>

-----------------------------------------------------------------------------
(* HotspotQuestion. *)

IsHotspot == HasCurrent /\ CurrentQuestion.type = "hotspot"

WithZones(question, zones) == [question EXCEPT !.zones = Some(zones)]

\* the URL input is disabled while the question holds an uploaded file
UpdateImageUrl ==
    /\ Counted
    /\ IsHotspot
    /\ CurrentQuestion.imageFile = None
    /\ \E imageUrl \in ImageUrlTyped :
         Change([CurrentQuestion EXCEPT !.imageUrl = Some(imageUrl),
                                        !.imageFile = None])

\* handleFileUpload up to reader.readAsDataURL(file): the load that is started
\* keeps the question and the onChange (with its questions) of this render
HandleFileUpload ==
    /\ Counted
    /\ IsHotspot
    /\ \E chosen \in FilesChosen :
         /\ uploads' =
              IF /\ chosen # None
                 /\ StartsWith(Get(chosen).type, ImageSlash)
                 /\ ~(Get(chosen).size > MaxImageBytes)
              THEN uploads \cup {[question |-> CurrentQuestion,
                                  questions |-> questions,
                                  file |-> Get(chosen)]}
              ELSE uploads
         /\ UNCHANGED <<questions, currentQuestionId, persisted,
                        isDrawing, currentZone>>

\* reader.onload of the started load u: onChange of the render that started it
uploadLoaded(u) ==
    /\ questions' =
         Replaced(u.questions,
                  [u.question EXCEPT !.imageUrl = Some(DataUrl(u.file)),
                                     !.imageFile = Some(u.file)])
    /\ uploads' = uploads \ {u}
    /\ UNCHANGED <<currentQuestionId, persisted>>
    /\ DrawingKept

UploadLoaded ==
    /\ Uncounted
    /\ \E u \in uploads : uploadLoaded(u)

\* the Clear Image button is rendered when imageUrl is not empty
ClearImage ==
    /\ Counted
    /\ IsHotspot
    /\ CurrentQuestion.imageUrl # None /\ Get(CurrentQuestion.imageUrl) # <<>>
    /\ Change([CurrentQuestion EXCEPT !.imageUrl = None, !.imageFile = None])

HandleImageClick ==
    /\ Uncounted
    /\ IsHotspot
    /\ Len(currentZone) < MaxPoints
    /\ \E point \in ClickPoints :
         IF isDrawing
         THEN currentZone' = Append(currentZone, point) /\ UNCHANGED isDrawing
         ELSE isDrawing' = TRUE /\ currentZone' = <<point>>
    /\ UNCHANGED <<questions, currentQuestionId, uploads, persisted>>

RECURSIVE Decimal(_)
\* `${n}` for a natural number
Decimal(n) ==
    LET digit == <<"0","1","2","3","4","5","6","7","8","9">>[(n % 10) + 1]
    IN  IF n < 10 THEN <<digit>> ELSE Decimal(n \div 10) \o <<digit>>

ZoneWord == <<"Z","o","n","e"," ">>

finishZone_anyCount(id) ==
    /\ questions' =
         Replaced(questions,
            WithZones(CurrentQuestion,
               Append(Get(CurrentQuestion.zones),
                  [id |-> id, coordinates |-> currentZone,
                   label |-> Some(ZoneWord \o Decimal(Len(Get(CurrentQuestion.zones)) + 1))])))
    /\ currentZone' = <<>>
    /\ isDrawing' = FALSE
    /\ UNCHANGED <<currentQuestionId, uploads, persisted>>

\* finishZone(), with id the value its generateId() returns
finishZone(id) ==
    /\ questions' =
         IF Len(currentZone) >= 3
         THEN Replaced(questions,
                 WithZones(CurrentQuestion,
                    Append(Get(CurrentQuestion.zones),
                       [id |-> id, coordinates |-> currentZone,
                        label |-> Some(ZoneWord \o Decimal(Len(Get(CurrentQuestion.zones)) + 1))])))
         ELSE questions
    /\ currentZone' = <<>>
    /\ isDrawing' = FALSE
    /\ UNCHANGED <<currentQuestionId, uploads, persisted>>

\* the Finish Zone button is rendered while drawing. It is disabled below 3
\* points; the handler, which checks the number of points itself, is modelled
\* for any number of points.
FinishZone ==
    /\ Counted
    /\ IsHotspot
    /\ isDrawing
    /\ \E id \in Ids : finishZone(id)

CancelDrawing_keepsPoints ==
    /\ Uncounted
    /\ IsHotspot
    /\ isDrawing
    /\ isDrawing' = FALSE
    /\ UNCHANGED <<currentZone, questions, currentQuestionId, uploads, persisted>>

CancelDrawing ==
    /\ Uncounted
    /\ IsHotspot
    /\ isDrawing
    /\ currentZone' = <<>>
    /\ isDrawing' = FALSE
    /\ UNCHANGED <<questions, currentQuestionId, uploads, persisted>>

RemoveZone ==
    /\ Counted
    /\ IsHotspot
    /\ LET zones == Get(CurrentQuestion.zones)
       IN  \E k \in 1..Len(zones) :
             LET keep(zone) == zone.id # zones[k].id
             IN  Change(WithZones(CurrentQuestion, SelectSeq(zones, keep)))

UpdateZoneLabel ==
    /\ Counted
    /\ IsHotspot
    /\ LET zones == Get(CurrentQuestion.zones)
       IN  \E k \in 1..Len(zones) : \E label \in TextTyped :
             Change(WithZones(CurrentQuestion,
                [i \in 1..Len(zones) |->
                   IF zones[i].id = zones[k].id
                   THEN [zones[i] EXCEPT !.label = Some(label)]
                   ELSE zones[i]]))

-----------------------------------------------------------------------------
(* The editing session. *)

Init ==
    /\ InitEditor
    /\ doc = None
    /\ clientResult = None
    /\ schemaResult = None

Next ==
    \/ AddQuestion
    \/ SelectQuestion
    \/ DeleteQuestion
    \/ DuplicateQuestion
    \/ SaveQuestion
    \/ UpdateQuestionType
    \/ UpdatePurpose
    \/ UpdateMetadata
    \/ HandleAISuggest
    \/ UpdateStem
    \/ UpdateOption
    \/ AddOption
    \/ RemoveOption
    \/ SetCorrectOption
    \/ UpdateItem
    \/ AddItem
    \/ RemoveItem
    \/ HandleDragEnd
    \/ UpdateImageUrl
    \/ HandleFileUpload
    \/ ClearImage
    \/ FinishZone
    \/ RemoveZone
    \/ UpdateZoneLabel
    \/ HandleImageClick
    \/ CancelDrawing
    \/ UploadLoaded

Spec == Init /\ [][Next]_vars

-----------------------------------------------------------------------------
(* Properties of the two validators (under SpecDoc). *)

BothRan == clientResult # None /\ schemaResult # None

Contains(seq, e) == \E i \in 1..Len(seq) : seq[i] = e

MsgStem == "Question stem is required"
MsgObjective == "Learning objective is required for summative questions"
MsgBlooms == "Bloom's level is required for summative questions"
MsgCorrect == "At least one option must be marked as correct"
MsgOptionText == "All options must have text"
MsgFeedback == "All options must have feedback for formative questions"
MsgItemText == "All items must have text"
MsgItemCount == "Ordering questions must have at least 2 items"
MsgZones == "At least one hotspot zone is required"
ErrExactlyOne == "MCQ questions must have exactly one correct option"
ErrFeedback == "Formative MCQ questions must have feedback for all options"
ErrSequential == "Ordering items must have sequential order numbers starting from 0"

\* C1: the schema-side validator accepts a document iff validateQuestion
\* reports it valid.
CrossValidatorConsistency ==
    BothRan => (Get(schemaResult).accepted <=> Get(clientResult).isValid)

\* C2 as stated: an MCQ document is persisted iff exactly one option is correct.
McqPersistsIffOneCorrect ==
    (doc.type = "mcq" /\ schemaResult # None)
        => (Get(schemaResult).accepted <=> CorrectCount(Get(doc.options)) = 1)

\* C2, amended: an MCQ document is persisted only if exactly one option is
\* correct; an MCQ document that passes the field rules is persisted iff
\* exactly one option is correct, and with zero or with two or more correct
\* options the pre-save pass rejects it with the exactly-one-correct error.
McqExactlyOneCorrect ==
    (doc.type = "mcq" /\ schemaResult # None)
        => LET r == Get(schemaResult)
               n == CorrectCount(Get(doc.options))
           IN  /\ r.accepted => n = 1
               /\ r.fieldErrors = {} =>
                     /\ r.accepted <=> n = 1
                     /\ n # 1 => r.error = Some(ErrExactlyOne)

\* two correct options, nothing else wrong: rejected by the pre-save pass
McqTwoCorrectRejected ==
    /\ doc.type = "mcq" /\ schemaResult # None
    /\ CorrectCount(Get(doc.options)) = 2
    /\ Get(schemaResult).fieldErrors = {}
    /\ Get(schemaResult).error = Some(ErrExactlyOne)

\* the order values are exactly 0, 1, ..., n-1 in some storage order
IsSequential(items) ==
    {items[i].order : i \in 1..Len(items)} = 0..(Len(items) - 1)

\* C3 as stated: an ordering document is persisted iff its order values,
\* sorted, are 0..n-1.
OrderingPersistsIffSequential ==
    (doc.type = "ordering" /\ schemaResult # None)
        => (Get(schemaResult).accepted <=> IsSequential(Get(doc.items)))

\* C3, amended: an ordering document is persisted only if its order values
\* sorted ascending are 0..n-1; one that passes the field rules is persisted
\* iff they are, whatever the storage order, and is otherwise rejected with
\* the sequential-order error.
OrderingSequentialInvariant ==
    (doc.type = "ordering" /\ schemaResult # None)
        => LET r == Get(schemaResult)
               ok == IsSequential(Get(doc.items))
           IN  /\ r.accepted => ok
               /\ r.fieldErrors = {} =>
                     /\ r.accepted <=> ok
                     /\ ~ok => r.error = Some(ErrSequential)

Orders(items) == [i \in 1..Len(items) |-> items[i].order]

\* orders stored as 0,2,1 are persisted
OrderingPermutationAccepted ==
    /\ doc.type = "ordering" /\ schemaResult # None
    /\ Orders(Get(doc.items)) = <<0, 2, 1>>
    /\ Get(schemaResult).accepted

BloomsAbsent(q) == q.bloomsLevel = None \/ Get(q.bloomsLevel) = ""

MissingFeedback(q) ==
    \E i \in 1..Len(Get(q.options)) : Blank(Get(q.options)[i].feedback)

\* C5: a formative MCQ with an option without feedback is rejected by both
\* validators with a feedback error; a summative MCQ never gets one.
FormativeFeedbackRequired ==
    (BothRan /\ doc.type = "mcq") =>
        LET r == Get(schemaResult)
            c == Get(clientResult)
        IN  /\ (doc.purpose = "formative" /\ MissingFeedback(doc))
                  => /\ ~r.accepted /\ "options.feedback" \in r.fieldErrors
                     /\ ~c.isValid /\ Contains(c.errors, MsgFeedback)
            /\ doc.purpose = "summative"
                  => /\ "options.feedback" \notin r.fieldErrors
                     /\ r.error # Some(ErrFeedback)
                     /\ ~Contains(c.errors, MsgFeedback)

\* a formative MCQ whose only defect is one option without feedback, rejected
\* by both validators
FormativeMissingFeedbackRejected ==
    /\ BothRan /\ doc.type = "mcq" /\ doc.purpose = "formative"
    /\ Len(Get(doc.options)) = 2
    /\ Get(doc.options)[1].feedback = Some(<<"f">>)
    /\ Blank(Get(doc.options)[2].feedback)
    /\ Get(schemaResult).fieldErrors = {"options.feedback"}
    /\ Get(clientResult).errors = <<MsgFeedback>>

\* the messages of validateQuestion in the order of its checks
CheckOrder ==
    <<MsgStem, MsgObjective, MsgBlooms, MsgCorrect, MsgOptionText, MsgFeedback,
      MsgItemText, MsgItemCount, MsgZones>>

Position(msg) == CHOOSE i \in 1..Len(CheckOrder) : CheckOrder[i] = msg

\* the rules of the client-side validator that a question violates
ViolatedRules(q) ==
    {m \in {MsgStem} : trim(q.stem) = <<>>}
    \cup {m \in {MsgObjective} : q.purpose = "summative" /\ Blank(q.learningObjective)}
    \cup {m \in {MsgBlooms} : q.purpose = "summative" /\ BloomsAbsent(q)}
    \cup {m \in {MsgCorrect} :
            q.type = "mcq" /\ CorrectCount(Get(q.options)) = 0}
    \cup {m \in {MsgOptionText} :
            q.type = "mcq"
            /\ \E i \in 1..Len(Get(q.options)) : trim(Get(q.options)[i].text) = <<>>}
    \cup {m \in {MsgFeedback} :
            q.type = "mcq" /\ q.purpose = "formative" /\ MissingFeedback(q)}
    \cup {m \in {MsgItemText} :
            q.type = "ordering"
            /\ \E i \in 1..Len(Get(q.items)) : trim(Get(q.items)[i].text) = <<>>}
    \cup {m \in {MsgItemCount} : q.type = "ordering" /\ Len(Get(q.items)) < 2}
    \cup {m \in {MsgZones} : q.type = "hotspot" /\ Len(Get(q.zones)) = 0}

\* C8: validateQuestion returns one message for every violated rule and no
\* other, in the order of the checks, and isValid iff there is none.
ErrorsAccumulateInCheckOrder ==
    clientResult # None =>
        LET c == Get(clientResult)
        IN  /\ \A i \in 1..Len(c.errors) : Contains(CheckOrder, c.errors[i])
            /\ \A i, j \in 1..Len(c.errors) :
                    i < j => Position(c.errors[i]) < Position(c.errors[j])
            /\ {c.errors[i] : i \in 1..Len(c.errors)} = ViolatedRules(doc)
            /\ c.isValid <=> c.errors = <<>>

\* a formative MCQ violating the stem rule and all three option rules
FourErrorsReported ==
    /\ clientResult # None
    /\ Get(clientResult).errors = <<MsgStem, MsgCorrect, MsgOptionText, MsgFeedback>>

-----------------------------------------------------------------------------
(* Properties of the editing session (under Spec). *)

\* C6: whenever Save is enabled for the current question (validateQuestion
\* reports it valid), the schema-side validator accepts that question.
SaveGatingSound ==
    (HasCurrent /\ ~SaveDisabled(CurrentQuestion))
        => SchemaSave(ToDocument(CurrentQuestion)).accepted

\* the edit operations of the editor of the current question
EditsEnabled ==
    /\ ENABLED UpdateStem
    /\ ENABLED UpdatePurpose
    /\ ENABLED UpdateQuestionType
    /\ ENABLED UpdateMetadata
    /\ ENABLED HandleAISuggest
    /\ IsMcq =>
         /\ ENABLED AddOption
         /\ Len(Get(CurrentQuestion.options)) > 0 =>
              ENABLED UpdateOption /\ ENABLED SetCorrectOption
         /\ Len(Get(CurrentQuestion.options)) > 2 => ENABLED RemoveOption
    /\ IsOrdering =>
         /\ ENABLED AddItem
         /\ Len(Get(CurrentQuestion.items)) > 0 =>
              ENABLED UpdateItem /\ ENABLED HandleDragEnd
         /\ Len(Get(CurrentQuestion.items)) > 2 => ENABLED RemoveItem
    /\ IsHotspot =>
         /\ ENABLED HandleFileUpload
         /\ CurrentQuestion.imageFile = None => ENABLED UpdateImageUrl
         /\ Len(Get(CurrentQuestion.zones)) > 0 =>
              ENABLED RemoveZone /\ ENABLED UpdateZoneLabel

\* C7: every question that was saved was valid when Save fired; while the
\* current question has a validation error (or there is none) Save cannot fire;
\* and an invalid current question can still be edited by every edit operation
\* (as long as the session handles further events).
SaveGating ==
    /\ \A i \in 1..Len(persisted) : validateQuestion(persisted[i]).isValid
    /\ (~HasCurrent \/ ~validateQuestion(CurrentQuestion).isValid)
          => ~ENABLED SaveQuestion
    /\ (HasCurrent /\ ~validateQuestion(CurrentQuestion).isValid /\ edits < MaxEdits)
          => EditsEnabled

\* a question was saved, and Save is now refused for an invalid current question
SavedThenRefused ==
    /\ persisted # <<>>
    /\ HasCurrent
    /\ validateQuestion(CurrentQuestion).errors # <<>>
    /\ SaveDisabled(CurrentQuestion)

\* C10: duplicating q appends a question whose id differs from q's, whose stem
\* is q's stem followed by " (Copy)" and whose other fields equal q's, and
\* leaves q and every other question as they were.
DuplicateStructure ==
    [][\A i \in 1..Len(questions) : \A id \in Ids :
          duplicateQuestion(questions[i], id) =>
             LET q == questions[i]
                 copy == questions'[Len(questions')]
             IN  /\ Len(questions') = Len(questions) + 1
                 /\ copy.id # q.id
                 /\ copy.stem = q.stem \o CopySuffix
                 /\ [copy EXCEPT !.id = q.id, !.stem = q.stem] = q
                 /\ SubSeq(questions', 1, Len(questions)) = questions]_vars

\* C11: the duplicate made by duplicateQuestion(q) has the same validation
\* result as q: validateQuestion gives the same isValid and the same errors.
DuplicateValidatesAsOriginal ==
    [][\A i \in 1..Len(questions) : \A id \in Ids :
          duplicateQuestion(questions[i], id) =>
             validateQuestion(questions'[Len(questions')])
                = validateQuestion(questions[i])]_vars

-----------------------------------------------------------------------------
(* Further properties of the two validators (under SpecDoc). *)

-----------------------------------------------------------------------------
(* Further properties of the editing session (under Spec). *)

\* every zone of every hotspot question has at least 3 points
ZonesArePolygons ==
    \A i \in 1..Len(questions) :
        questions[i].type = "hotspot" =>
            \A k \in 1..Len(Get(questions[i].zones)) :
                Len(Get(questions[i].zones)[k].coordinates) >= 3

\* C13: in every reachable state every zone of every hotspot question has at
\* least 3 points, and finishZone with fewer than 3 points drawn adds no zone
\* and leaves the question (and the whole collection) unchanged.
PolygonMinimum ==
    /\ []ZonesArePolygons
    /\ [][\A id \in Ids :
            (IsHotspot /\ isDrawing /\ Len(currentZone) < 3 /\ finishZone(id))
                => questions' = questions]_vars

\* a zone that was drawn with exactly 3 clicks and finished
DrawnTriangleKept ==
    /\ IsHotspot
    /\ ~isDrawing
    /\ \E k \in 1..Len(Get(CurrentQuestion.zones)) :
          LET zone == Get(CurrentQuestion.zones)[k]
          IN  /\ Len(zone.coordinates) = 3
              /\ \A p \in 1..3 : zone.coordinates[p] \in ClickPoints

\* C14: no two questions of the collection have the same id.
QuestionIdsUnique ==
    \A i, j \in 1..Len(questions) : questions[i].id = questions[j].id => i = j

\* the sub-items of a question's own variant
Payload(question) ==
    CASE question.type = "mcq" -> Get(question.options)
      [] question.type = "ordering" -> Get(question.items)
      [] question.type = "hotspot" -> Get(question.zones)

\* C15 as stated: a question created for any of the three types has an empty
\* stem and between 2 and 4 stub sub-items of its type.
CreatedWithTwoToFourStubs ==
    [][\A type \in QuestionTypes : \A ids \in IdSeqs(IdsNeeded(type)) :
          Appended(type, ids) =>
             LET created == questions'[Len(questions')]
             IN  /\ created.type = type
                 /\ created.stem = <<>>
                 /\ Len(Payload(created)) >= 2
                 /\ Len(Payload(created)) <= 4]_vars

\* C15: a question created for a type has that type, an empty stem, purpose
\* formative and the default payload of the type: 4 stub options (empty text,
\* the second one correct) for mcq, 3 stub items (empty text, order 0, 1, 2)
\* for ordering, and no zone (with an empty imageUrl) for hotspot.
CreationDefaults ==
    [][\A type \in QuestionTypes : \A ids \in IdSeqs(IdsNeeded(type)) :
          Appended(type, ids) =>
             LET created == questions'[Len(questions')]
                 payload == Payload(created)
             IN  /\ created.type = type
                 /\ created.id = ids[1]
                 /\ created.stem = <<>>
                 /\ created.purpose = "formative"
                 /\ type = "mcq" =>
                      /\ Len(payload) = 4
                      /\ \A k \in 1..4 : /\ payload[k].text = <<>>
                                         /\ payload[k].isCorrect = (k = 2)
                      /\ created.items = None /\ created.zones = None
                 /\ type = "ordering" =>
                      /\ Len(payload) = 3
                      /\ \A k \in 1..3 : /\ payload[k].text = <<>>
                                         /\ payload[k].order = k - 1
                      /\ created.options = None /\ created.zones = None
                 /\ type = "hotspot" =>
                      /\ Len(payload) = 0
                      /\ created.imageUrl = Some(<<>>)
                      /\ created.options = None /\ created.items = None]_vars

\* a hotspot question was just created: it is current and has no zone
HotspotCreatedWithoutZones ==
    /\ edits = 1
    /\ IsHotspot
    /\ CurrentQuestion.stem = <<>>
    /\ Len(Get(CurrentQuestion.zones)) = 0

-----------------------------------------------------------------------------
(* Properties of the schema's count and imageUrl rules (under SpecDoc). *)

HttpPrefixed(url) ==
    \E prefix \in {Http, Https} :
        Len(url) > Len(prefix) /\ SubSeq(url, 1, Len(prefix)) = prefix

\* C17 as stated: the schema-side validator rejects a document for its
\* imageUrl exactly when the imageUrl is present, not empty and does not start
\* with http:// or https:// followed by at least one character.
ImageUrlFormatAsGiven ==
    schemaResult # None =>
        ("imageUrl" \in Get(schemaResult).fieldErrors
            <=> /\ doc.imageUrl # None
                /\ Get(doc.imageUrl) # <<>>
                /\ ~HttpPrefixed(Get(doc.imageUrl)))

\* C17: the same for the imageUrl without its leading and trailing white
\* space, which is the value the schema validates and stores; a document of
\* any type is rejected for such an imageUrl and for no other.
ImageUrlFormat ==
    schemaResult # None =>
        LET schema == Get(schemaResult)
            rejected == /\ doc.imageUrl # None
                        /\ trim(Get(doc.imageUrl)) # <<>>
                        /\ ~HttpPrefixed(trim(Get(doc.imageUrl)))
        IN  /\ "imageUrl" \in schema.fieldErrors <=> rejected
            /\ rejected => ~schema.accepted

\* an mcq document was rejected only for its imageUrl
McqWithBadImageUrlRejected ==
    /\ schemaResult # None
    /\ doc.type = "mcq"
    /\ doc.imageUrl = Some(<<"a">>)
    /\ Get(schemaResult).fieldErrors = {"imageUrl"}

-----------------------------------------------------------------------------
(* Further properties of the editing session (under Spec), continued. *)

\* C18: every question of the collection has one of the three types and
\* carries the payload of that type and no other: options iff mcq, items iff
\* ordering, zones iff hotspot.
TaggedUnionWellFormed ==
    \A i \in 1..Len(questions) :
        LET q == questions[i]
        IN  /\ q.type \in QuestionTypes
            /\ q.options # None <=> q.type = "mcq"
            /\ q.items # None <=> q.type = "ordering"
            /\ q.zones # None <=> q.type = "hotspot"

\* a question created as an mcq, changed to ordering and then filled by AI
\* suggest: the items keep the ids the type change gave them
RetypedThenSuggested ==
    /\ edits = 3
    /\ IsOrdering
    /\ Len(Get(CurrentQuestion.items)) = 4
    /\ Get(CurrentQuestion.items)[1].id = "item1"
    /\ Get(CurrentQuestion.items)[1].text # <<>>
    /\ CurrentQuestion.options = None

\* C19: when a file upload started on a hotspot question completes, the
\* collection is the one of that moment with only imageUrl and imageFile of
\* that question changed: every edit made since the upload started is kept.
\* (Stated for collections whose ids are all different.)
UploadKeepsLaterEdits ==
    [][\A u \in uploads :
          (QuestionIdsUnique /\ uploadLoaded(u)) =>
             questions' =
                [i \in 1..Len(questions) |->
                   IF questions[i].id = u.question.id
                   THEN [questions[i] EXCEPT !.imageUrl = Some(DataUrl(u.file)),
                                             !.imageFile = Some(u.file)]
                   ELSE questions[i]]]_vars

\* C20: deleteQuestion(id) removes the questions with that id and no other,
\* keeps the others as they were and in their order, moves the selection to
\* the first remaining question (to none if none remains) when the deleted
\* question was the current one, and otherwise leaves the selection alone.
DeleteFrame ==
    [][\A i \in 1..Len(questions) :
          deleteQuestion(questions[i].id) =>
             LET id == questions[i].id
                 kept == {j \in 1..Len(questions) : questions[j].id # id}
                 place(j) == Cardinality({k \in kept : k <= j})
             IN  /\ Len(questions') = Cardinality(kept)
                 /\ \A j \in kept : questions'[place(j)] = questions[j]
                 /\ \A j \in 1..Len(questions') : questions'[j].id # id
                 /\ currentQuestionId' =
                      IF currentQuestionId # Some(id) THEN currentQuestionId
                      ELSE IF Len(questions') = 0 THEN None
                      ELSE Some(questions'[1].id)]_vars

\* a question was added and duplicated, and the original was then deleted:
\* the copy is all that remains, and it is still the current question
OnlyTheCopyRemains ==
    /\ edits = 3
    /\ Len(questions) = 1
    /\ questions[1].stem = CopySuffix
    /\ currentQuestionId = Some(questions[1].id)

-----------------------------------------------------------------------------
(* Properties of the per-type editors (under Spec). *)

\* C21: the items of every ordering question carry their own position as
\* order (0 for the first item, 1 for the second, ...), so the order values
\* are 0..n-1 and the schema's sequential-order check passes for the question.
EditorKeepsOrderingSequential ==
    \A i \in 1..Len(questions) :
        questions[i].type = "ordering" =>
            LET items == Get(questions[i].items)
            IN  /\ \A k \in 1..Len(items) : items[k].order = k - 1
                /\ {items[k].order : k \in 1..Len(items)} = 0..(Len(items) - 1)
                /\ OrderingPreSave(Cast(ToDocument(questions[i]))) = None

\* an ordering question whose second item was dragged to the front
DraggedToFront ==
    /\ IsOrdering
    /\ Len(Get(CurrentQuestion.items)) = 3
    /\ Get(CurrentQuestion.items)[1].id = "item2"
    /\ Get(CurrentQuestion.items)[2].id = "item1"
    /\ Get(CurrentQuestion.items)[1].order = 0

\* C22: every MCQ question has at most one option marked correct.
AtMostOneCorrectOption ==
    \A i \in 1..Len(questions) :
        questions[i].type = "mcq" => CorrectCount(Get(questions[i].options)) <= 1

\* C23: every MCQ question has at least 2 options and every ordering question
\* has at least 2 items.
MinimumSubItemCounts ==
    \A i \in 1..Len(questions) :
        /\ questions[i].type = "mcq" => Len(Get(questions[i].options)) >= 2
        /\ questions[i].type = "ordering" => Len(Get(questions[i].items)) >= 2

-----------------------------------------------------------------------------
(* Properties of the selection and of Save (under Spec). *)

\* C24: currentQuestionId is undefined or the id of a question of the
\* collection.
SelectionValid ==
    currentQuestionId = None
        \/ \E i \in 1..Len(questions) : questions[i].id = Get(currentQuestionId)

\* C25: a save leaves the collection as it was but for a new question at its
\* end, which is an empty formative MCQ and becomes the current question; so
\* Save is disabled right after every save.
SaveFollowedByDisabledSave ==
    [][SaveQuestion =>
          LET new == questions'[Len(questions')]
          IN  /\ Len(questions') = Len(questions) + 1
              /\ SubSeq(questions', 1, Len(questions)) = questions
              /\ new.type = "mcq" /\ new.purpose = "formative" /\ new.stem = <<>>
              /\ currentQuestionId' = Some(new.id)
              /\ CurrentQuestion' = new
              /\ SaveDisabled(CurrentQuestion')]_vars

-----------------------------------------------------------------------------
(* Frame properties of the updates (under Spec). *)

\* C26: updateQuestionType(t) keeps the current question's id, purpose, stem,
\* topic, learningObjective and bloomsLevel, sets its type to t and replaces
\* its payload by the default payload of t (4 options of which exactly one is
\* correct, 3 items with order 0, 1, 2, or no zone and an empty imageUrl),
\* whatever the payload and the type were; the question stays at its place.
TypeChangeFrame ==
    [][\A t \in QuestionTypes :
          (HasCurrent /\ Change(TypeChanged(CurrentQuestion, t))) =>
             LET k == CurrentIndexIn(questions, currentQuestionId)
                 old == questions[k]
                 new == questions'[k]
             IN  /\ Len(questions') = Len(questions)
                 /\ new.id = old.id /\ new.purpose = old.purpose
                 /\ new.stem = old.stem /\ new.topic = old.topic
                 /\ new.learningObjective = old.learningObjective
                 /\ new.bloomsLevel = old.bloomsLevel
                 /\ new.type = t
                 /\ t = "mcq" =>
                      /\ Len(Get(new.options)) = 4
                      /\ CorrectCount(Get(new.options)) = 1
                      /\ \A j \in 1..4 : Get(new.options)[j].text = <<>>
                      /\ new.items = None /\ new.zones = None /\ new.imageUrl = None
                 /\ t = "ordering" =>
                      /\ Len(Get(new.items)) = 3
                      /\ \A j \in 1..3 : /\ Get(new.items)[j].order = j - 1
                                         /\ Get(new.items)[j].text = <<>>
                      /\ new.options = None /\ new.zones = None /\ new.imageUrl = None
                 /\ t = "hotspot" =>
                      /\ new.zones = Some(<<>>) /\ new.imageUrl = Some(<<>>)
                      /\ new.options = None /\ new.items = None
                 /\ new.imageFile = None]_vars

\* an MCQ filled by AI suggest whose type was then set to mcq again: the stem
\* and topic are kept, the options are the empty defaults
SameTypeReset ==
    /\ edits = 3
    /\ IsMcq
    /\ CurrentQuestion.stem # <<>>
    /\ CurrentQuestion.topic # None
    /\ Get(CurrentQuestion.options)[1].id = "opt1"
    /\ Get(CurrentQuestion.options)[1].text = <<>>
    /\ persisted = <<>>


\* what updateQuestion(u) for a question of the given id may change in the
\* collection that is current when it runs (a handler that returns before
\* its onChange leaves the collection as it is)
UpdatedOnly(id) ==
    /\ Len(questions') = Len(questions)
    /\ currentQuestionId' = currentQuestionId
    /\ \A i \in 1..Len(questions) :
          questions[i].id # id => questions'[i] = questions[i]
    /\ questions' # questions =>
          \A i, j \in 1..Len(questions) :
             (questions[i].id = id /\ questions[j].id = id) =>
                (questions'[i] = questions'[j] /\ questions'[i].id = id)

\* the handlers of the question editor, which call onChange once
EditorChanges ==
    \/ UpdateQuestionType \/ UpdatePurpose \/ UpdateMetadata \/ HandleAISuggest
    \/ UpdateStem \/ UpdateOption \/ AddOption \/ RemoveOption
    \/ SetCorrectOption \/ UpdateItem \/ AddItem \/ RemoveItem
    \/ HandleDragEnd \/ UpdateImageUrl \/ ClearImage \/ FinishZone
    \/ RemoveZone \/ UpdateZoneLabel

\* C27: every run of updateQuestion(u), from an editor handler or from a
\* completed file load, replaces the entries of the collection whose id is
\* u.id by u and leaves the other questions, the length, the order and the
\* selection as they are; when no question has u's id (it was deleted
\* meanwhile) the collection is unchanged.
UpdateFrame ==
    [][/\ EditorChanges => UpdatedOnly(Get(currentQuestionId))
       /\ \A u \in uploads : uploadLoaded(u) => UpdatedOnly(u.question.id)]_vars

-----------------------------------------------------------------------------
(* Properties of the zone drawing (under Spec). *)

\* C28: isDrawing holds exactly when currentZone has a point. The points
\* change only by a click while idle, which starts a drawing of that one
\* point, by a click while drawing, which appends one point, or by a return
\* to idle with no point; finishZone and cancelDrawing both return to idle
\* with no point, and cancelDrawing leaves the questions and their zones alone.
ZoneDrawingMachine ==
    /\ [](isDrawing <=> currentZone # <<>>)
    /\ [][/\ currentZone' # currentZone =>
               \/ /\ ~isDrawing /\ isDrawing'
                  /\ \E point \in ClickPoints : currentZone' = <<point>>
               \/ /\ isDrawing /\ isDrawing'
                  /\ \E point \in ClickPoints :
                        currentZone' = Append(currentZone, point)
               \/ ~isDrawing' /\ currentZone' = <<>>
          /\ HandleImageClick =>
               /\ isDrawing'
               /\ Len(currentZone') = IF isDrawing THEN Len(currentZone) + 1 ELSE 1
          /\ (FinishZone \/ CancelDrawing) =>
               (~isDrawing' /\ currentZone' = <<>>)
          /\ CancelDrawing => questions' = questions]_vars

\* a zone was finished and a second drawing has two points
SecondDrawingUnderWay ==
    /\ IsHotspot
    /\ Len(Get(CurrentQuestion.zones)) = 1
    /\ isDrawing
    /\ Len(currentZone) = 2
    /\ currentZone[1] # currentZone[2]

=============================================================================
